---- MODULE Spec2Model ----
(***************************************************************************)
(* The interactive terminal sessions of the chat client:                   *)
(*   - `receive`  : receive_message -> waitForCtrlRInReceiveMessage        *)
(*   - `requests` : manageFriendRequests -> handleIncomingRequests ->      *)
(*                  waitForCtrlR -> handleFriendRequestResponse            *)
(* together with the raw/cooked terminal switch (makeRaw / restore) and    *)
(* the front end (main) that reports the outcome of the session.           *)
(*                                                                         *)
(* Strings that the code inspects character by character (lines typed by   *)
(* the user) are sequences of one-character strings; strings it only       *)
(* passes around or compares whole are TLA+ strings.                       *)
(***************************************************************************)
EXTENDS Integers, Sequences, FiniteSets, TLC

\* Bounds of the model.
MaxReads == 2      \* single-byte reads of stdin per run
MaxFriends == 3    \* friends in a list handed to selectFriend
MaxAdds == 3       \* runs of the command that adds a friend
MaxSearches == 2   \* iterations of the interactive search loop
MaxRequests == 3   \* friend-request records in a fetched response

\* Key codes tested by the read loops.
CtrlC == 3
CtrlR == 18
CtrlS == 19

\* Indices of the control characters the program sets (syscall.VMIN,
\* syscall.VTIME on Linux); the kernel uses the same indices into c_cc.
VMIN == 6
VTIME == 5

VARIABLES
    pc,         \* "main" | "RAW_WAIT" | "ACTION_RUNNING" | "returned" | "exited"
    command,    \* os.Args[1]
    origTerm,   \* terminal configuration when the process started
    term,       \* current terminal configuration (process-wide device state)
    oldState,   \* local variable oldState of the read loop: <<>> is nil, <<cfg>> a snapshot
    deferred,   \* argument captured by the loop's `defer restore(fd, oldState)`
    friend,     \* selected peer of the conversation session
    requests,   \* fetched incoming friend requests
    tty,        \* history: terminal and stdin operations, each with the mode it ran in
    net,        \* history: collaborator (HTTP) calls, each with the mode it ran in
    stdout,     \* history: lines printed
    netAtEntry, \* history: Len(net) when the read loop was entered
    result,     \* what the command function returned to main: "none" | "nil" | "error"
    exitCode,   \* -1 while running, else the process exit status
    friends,    \* the friends list handed to selectFriend
    indexed,    \* history: the slice indices selectFriend accessed
    stdin,      \* characters typed and not yet consumed by a scan
    friendsFile,\* friends.json: whether it exists, and its bytes
    running     \* the locals a running handler will leave: <<>> when none runs

\* What the two interactive sessions never touch
offSession == <<friends, indexed, stdin, friendsFile>>

vars == <<pc, command, origTerm, term, oldState, deferred, friend, requests,
          tty, net, stdout, netAtEntry, result, exitCode, friends, indexed, stdin,
          friendsFile, running>>

-----------------------------------------------------------------------------
(* Text helpers (Go standard library, as used by the handlers)             *)

\* unicode.IsSpace on the characters of the model's alphabet
IsSpace(c) == c \in {" ", "\t", "\n", "\r"}

RECURSIVE TrimLeft(_)
TrimLeft(s) == IF s # <<>> /\ IsSpace(Head(s)) THEN TrimLeft(Tail(s)) ELSE s

RECURSIVE TrimRight(_)
TrimRight(s) ==
    IF s # <<>> /\ IsSpace(s[Len(s)]) THEN TrimRight(SubSeq(s, 1, Len(s) - 1)) ELSE s

\* strings.TrimSpace
TrimSpaceNoTrim(s) == s
TrimSpace(s) == TrimRight(TrimLeft(s))

IsDigit(c) == c \in {"0", "1", "2", "3", "4", "5", "6", "7", "8", "9"}

DigitVal(c) ==
    CASE c = "0" -> 0 [] c = "1" -> 1 [] c = "2" -> 2 [] c = "3" -> 3 [] c = "4" -> 4
      [] c = "5" -> 5 [] c = "6" -> 6 [] c = "7" -> 7 [] c = "8" -> 8 [] c = "9" -> 9

RECURSIVE ParseDigits(_, _)
ParseDigits(s, acc) ==
    IF s = <<>> THEN acc ELSE ParseDigits(Tail(s), acc * 10 + DigitVal(Head(s)))

\* strconv.Atoi: optional sign, then one or more decimal digits, nothing else.
\* (The lines of the model are far too short to overflow an int.)
Atoi(s) ==
    LET signed == s # <<>> /\ Head(s) \in {"+", "-"}
        body   == IF signed THEN Tail(s) ELSE s
    IN  IF body = <<>> \/ \E i \in 1..Len(body) : ~IsDigit(body[i])
        THEN [err |-> TRUE, val |-> 0]
        ELSE [err |-> FALSE,
              val |-> IF Head(s) = "-" THEN 0 - ParseDigits(body, 0)
                      ELSE ParseDigits(body, 0)]

\* The token fmt.Scanln(&choice) stores: leading blanks skipped, then the
\* characters up to the next blank or the newline ("" on an empty line).
RECURSIVE TakeToken(_)
TakeToken(s) ==
    IF s = <<>> \/ IsSpace(Head(s)) THEN <<>> ELSE <<Head(s)>> \o TakeToken(Tail(s))

RECURSIVE SkipBlanks(_)
SkipBlanks(s) ==
    IF s # <<>> /\ Head(s) \in {" ", "\t", "\r"} THEN SkipBlanks(Tail(s)) ELSE s

Scanln(line) == TakeToken(SkipBlanks(line))

\* What fmt.Scanln leaves unread of the typed characters: after the token it
\* consumes blanks up to and including the newline, or up to and including
\* the first character that is not a blank (its "expected newline" error).
RECURSIVE DropToken(_)
DropToken(s) == IF s = <<>> \/ IsSpace(Head(s)) THEN s ELSE DropToken(Tail(s))

RECURSIVE AfterNewlineCheck(_)
AfterNewlineCheck(s) ==
    IF s = <<>> THEN <<>>
    ELSE IF Head(s) = "\n" THEN Tail(s)
    ELSE IF IsSpace(Head(s)) THEN AfterNewlineCheck(Tail(s))
    ELSE Tail(s)

ScanlnRest(line) ==
    LET s == SkipBlanks(line)
    IN  IF s # <<>> /\ Head(s) = "\n" THEN Tail(s) ELSE AfterNewlineCheck(DropToken(s))

\* strings.ToLower on the status strings the backend may send
ToLower(s) ==
    CASE s = "Pending"  -> "pending"
      [] s = "Accepted" -> "accepted"
      [] s = "Rejected" -> "rejected"
      [] OTHER          -> s

-----------------------------------------------------------------------------
(* Inputs of the environment                                               *)

\* os.Stdin.Read(buffer) with a one-byte buffer: a byte, or an error (EOF).
\* With len(buffer) = 1 a nil error always comes with n = 1.
ByteReads ==
    {[err |-> FALSE, n |-> 1, b |-> k] : k \in {CtrlC, CtrlR, CtrlS, 65}}
        \cup {[err |-> TRUE, n |-> 0, b |-> 0]}

WithNewline(texts) == {Append(t, "\n") : t \in texts}

\* reader.ReadString('\n'): the line with its newline, or an error
ReadError == [err |-> TRUE, text |-> <<>>]

MessageLines ==
    {[err |-> FALSE, text |-> t] :
        t \in WithNewline({<<>>, <<" ">>, <<"\t", " ">>, <<"h", "i">>, <<" ", "y", "o", " ">>})}
        \cup {ReadError}

NumberLines ==
    {[err |-> FALSE, text |-> t] :
        t \in WithNewline({<<>>, <<"a", "b", "c">>, <<"0">>, <<"1">>, <<"2">>, <<"5">>,
                           <<" ", "2", " ">>, <<"-", "1">>})}
        \cup {ReadError}

\* Lines typed at the accept/reject prompt
ChoiceLines ==
    {[err |-> FALSE, text |-> t] :
        t \in WithNewline({<<>>, <<"1">>, <<" ", "2">>, <<"3">>, <<"y">>})}
        \cup {ReadError}

\* Outcome of one HTTP exchange: transport failure, or a status and a body
HttpResponses == {"transport_error", "status_500", "status_200_json", "status_200_garbage"}

\* Outcome of the two ioctls of makeRaw
IoctlOutcomes == {"ok", "TCGETS_fails", "TCSETS_fails"}

\* The control characters of a configuration, indexed from 0 as the kernel
\* does: VINTR, VQUIT, VERASE, VKILL, VEOF, VTIME, VMIN
ControlChars(values) == [k \in 0..(Len(values) - 1) |-> values[k + 1]]

\* Cooked (canonical, echoing) configurations a shell hands to the process,
\* as the terminal driver holds them (struct termios of the kernel: the four
\* flag words, the line discipline byte c_line, the array c_cc)
CookedConfigs ==
    {[Iflag |-> {"ICRNL", "IXON"}, Oflag |-> {"OPOST"}, Cflag |-> {"CS8", "CREAD"},
      Lflag |-> {"ICANON", "ECHO", "ISIG"}, c_line |-> 0,
      c_cc |-> ControlChars(<<3, 28, 127, 21, 4, 0, 1>>)],
     [Iflag |-> {"ICRNL"}, Oflag |-> {}, Cflag |-> {"CS8"},
      Lflag |-> {"ICANON", "ECHO"}, c_line |-> 0,
      c_cc |-> ControlChars(<<3, 28, 127, 21, 4, 5, 4>>)]}

Statuses == {"pending", "accepted", "rejected", "Pending"}

\* A fetched list: record i carries request id i and sender <<"user", i>>
RequestLists ==
    UNION {
        {[i \in 1..n |-> [RequestID |-> i, SenderUsername |-> <<"user", i>>, Status |-> st[i]]]
            : st \in [1..n -> Statuses]}
        : n \in 0..MaxRequests}

FriendLists == {<<>>, <<"f1">>, <<"f1", "f2">>}

-----------------------------------------------------------------------------
(* Terminal Mode Switch                                                    *)

IsRaw(t) == "ICANON" \notin t.Lflag /\ "ECHO" \notin t.Lflag
IsCooked(t) == "ICANON" \in t.Lflag /\ "ECHO" \in t.Lflag

\* The ioctls TCGETS (0x5401) and TCSETS (0x5402) copy the kernel's struct
\* termios from and to the struct the program passes. The program's struct
\* (termios, termiosReceiveMessage) has the four flag words and then Cc
\* directly: it has no field for c_line, so Cc[0] lies over c_line and
\* Cc[k] over c_cc[k - 1].
TCGETS(t) ==
    [Iflag |-> t.Iflag, Oflag |-> t.Oflag, Cflag |-> t.Cflag, Lflag |-> t.Lflag,
     Cc |-> [k \in 0..(Cardinality(DOMAIN t.c_cc)) |->
                IF k = 0 THEN t.c_line ELSE t.c_cc[k - 1]]]
TCSETS(st) ==
    [Iflag |-> st.Iflag, Oflag |-> st.Oflag, Cflag |-> st.Cflag, Lflag |-> st.Lflag,
     c_line |-> st.Cc[0],
     c_cc |-> [k \in 0..(Cardinality(DOMAIN st.Cc) - 2) |-> st.Cc[k + 1]]]

\* makeRaw(fd): TCGETS into oldState, copy it, clear ICANON|ECHO,
\* Cc[syscall.VMIN] = 1, Cc[syscall.VTIME] = 0, TCSETS the copy;
\* (nil, errno) when either ioctl fails.
makeRawSnapshotsNewState(t, io) ==
    LET newState == [TCGETS(t) EXCEPT !.Lflag = @ \ {"ICANON", "ECHO"},
                                      !.Cc[VMIN] = 1, !.Cc[VTIME] = 0]
    IN  IF io # "ok"
        THEN [oldState |-> <<>>, err |-> TRUE, term |-> t]
        ELSE [oldState |-> <<newState>>, err |-> FALSE, term |-> TCSETS(newState)]
makeRaw(t, io) ==
    IF io = "TCGETS_fails"
    THEN [oldState |-> <<>>, err |-> TRUE, term |-> t]
    ELSE LET old      == TCGETS(t)
             newState == [old EXCEPT !.Lflag = @ \ {"ICANON", "ECHO"},
                                     !.Cc[VMIN] = 1, !.Cc[VTIME] = 0]
         IN  IF io = "TCSETS_fails"
             THEN [oldState |-> <<>>, err |-> TRUE, term |-> t]
             ELSE [oldState |-> <<old>>, err |-> FALSE, term |-> TCSETS(newState)]

\* restore(fd, oldState): TCSETS with the snapshot; with a nil snapshot the
\* ioctl gets a null pointer and fails (EFAULT) without touching the device.
restoreLeavesDevice(t, st) == [err |-> st = <<>>, term |-> t]
restore(t, st) ==
    IF st = <<>> THEN [err |-> TRUE, term |-> t] ELSE [err |-> FALSE, term |-> TCSETS(st[1])]

\* The conversation session carries its own copies of the two functions.
makeRawForReceiveMessage(t, io) == makeRaw(t, io)
restoreForReceiveMessageNoop(t, st) == [err |-> FALSE, term |-> t]
restoreForReceiveMessage(t, st) == restore(t, st)

\* History records: an operation on the terminal or on stdin, and the mode
\* the terminal was in when it was issued.
TtyEvent(name, t, success) ==
    [op |-> name, raw |-> IsRaw(t), ok |-> success, key |-> 0 - 1, text |-> <<>>]

\* A single-byte read and the byte it delivered
ReadEvent(t, rd) == [TtyEvent("read", t, ~rd.err) EXCEPT !.key = IF rd.err THEN 0 - 1 ELSE rd.b]

\* A cooked line read and the line it delivered
LineEvent(t, rd) == [TtyEvent("readLine", t, ~rd.err) EXCEPT !.text = rd.text]

NetCall(name, t, target, payload) ==
    [op |-> name, raw |-> IsRaw(t), to |-> target, arg |-> payload, ok |-> TRUE,
     body |-> ""]

\* The call with the outcome its caller got back (err == nil or not)
Returned(call, failed) == [call EXCEPT !.ok = ~failed]

\* The calls of a log made by the named operation
CallsOf(log, name) == SelectSeq(log, LAMBDA c : c.op = name)

Count(log, name) == Cardinality({i \in DOMAIN log : log[i].op = name})

-----------------------------------------------------------------------------
(* Collaborators: one HTTP exchange each                                   *)

\* A printed line: its fixed text and the values formatted into it
Line(s) == [text |-> s, ref |-> <<>>]
LineAbout(s, what) == [text |-> s, ref |-> what]

\* How often a line was printed
Printed(out, line) == Cardinality({i \in DOMAIN out : out[i] = line})

\* fetchConversation: GET conversation/<friend id>; an error unless the
\* status is 200 and the body parses; on success the conversation is printed.
fetchConversationLegacyID(t, peer, resp) ==
    [net |-> <<Returned(NetCall("fetchConversation", t, "", <<>>),
                        resp # "status_200_json")>>,
     err |-> resp # "status_200_json",
     out |-> IF resp = "status_200_json" THEN <<Line("=== Conversation ===")>> ELSE <<>>]
fetchConversation(t, peer, resp) ==
    [net |-> <<Returned(NetCall("fetchConversation", t, peer, <<>>),
                        resp # "status_200_json")>>,
     err |-> resp # "status_200_json",
     out |-> IF resp = "status_200_json" THEN <<Line("=== Conversation ===")>> ELSE <<>>]

\* sendMessageToFriend: POST send_message; an error on a transport failure
\* or a non-200 status; a 200 whose body does not parse is still success.
\* The call record also keeps what json.Unmarshal made of a 200 body.
Unmarshal(call, resp) ==
    [call EXCEPT !.body = CASE resp = "status_200_json"    -> "decoded"
                            [] resp = "status_200_garbage" -> "undecodable"
                            [] OTHER                       -> ""]

sendMessageToFriendStrict(t, message, recipientUID, resp) ==
    [net |-> <<Unmarshal(Returned(NetCall("sendMessage", t, recipientUID, message),
                                  resp # "status_200_json"), resp)>>,
     err |-> resp # "status_200_json"]
sendMessageToFriend(t, message, recipientUID, resp) ==
    [net |-> <<Unmarshal(Returned(NetCall("sendMessage", t, recipientUID, message),
                                  resp \in {"transport_error", "status_500"}), resp)>>,
     err |-> resp \in {"transport_error", "status_500"}]

\* respondToFriendRequest: POST respond_friend_request {username, action}
respondToFriendRequestOtherAction(t, username, action, resp) ==
    [net |-> <<Returned(NetCall("respondToRequest", t, username,
                                IF action = "accept" THEN "reject" ELSE "accept"),
                        resp \in {"transport_error", "status_500"})>>,
     err |-> resp \in {"transport_error", "status_500"}]
respondToFriendRequest(t, username, action, resp) ==
    [net |-> <<Returned(NetCall("respondToRequest", t, username, action),
                        resp \in {"transport_error", "status_500"})>>,
     err |-> resp \in {"transport_error", "status_500"}]

-----------------------------------------------------------------------------
(* Action handlers. Each returns what it did: lines printed (out),         *)
(* collaborator calls (net), stdin operations (tty) and its error result.  *)

\* handleSendMessage: read a line, trim it, refuse an empty body, send, and
\* refresh the conversation after a successful send.
handleSendMessageNoRefresh(t, peer, rd, sendResp, fetchResp) ==
    LET prompt  == <<LineAbout("Sending message to", <<peer>>), Line("Enter your message: ")>>
        reads   == <<LineEvent(t, rd)>>
        message == TrimSpace(rd.text)
        snd     == sendMessageToFriend(t, message, peer, sendResp)
    IN  IF rd.err
        THEN [err |-> TRUE, out |-> prompt, net |-> <<>>, tty |-> reads]
        ELSE IF message = <<>>
        THEN [err |-> FALSE, net |-> <<>>, tty |-> reads,
              out |-> prompt \o <<Line("Message cannot be empty. Message sending cancelled.")>>]
        ELSE [err |-> snd.err, net |-> snd.net, tty |-> reads,
              out |-> prompt \o <<Line("Sending message...")>>
                      \o (IF snd.err THEN <<>>
                          ELSE <<LineAbout("Message sent successfully", <<peer>>)>>)]
handleSendMessageRefreshErrorReturned(t, peer, rd, sendResp, fetchResp) ==
    LET prompt  == <<LineAbout("Sending message to", <<peer>>), Line("Enter your message: ")>>
        reads   == <<LineEvent(t, rd)>>
        message == TrimSpace(rd.text)
        snd     == sendMessageToFriend(t, message, peer, sendResp)
        ref     == fetchConversation(t, peer, fetchResp)
    IN  IF rd.err
        THEN [err |-> TRUE, out |-> prompt, net |-> <<>>, tty |-> reads]
        ELSE IF message = <<>>
        THEN [err |-> FALSE, net |-> <<>>, tty |-> reads,
              out |-> prompt \o <<Line("Message cannot be empty. Message sending cancelled.")>>]
        ELSE IF snd.err
        THEN [err |-> TRUE, net |-> snd.net, tty |-> reads,
              out |-> prompt \o <<Line("Sending message...")>>]
        ELSE [err |-> ref.err, net |-> snd.net \o ref.net, tty |-> reads,
              out |-> prompt
                      \o <<Line("Sending message..."),
                           LineAbout("Message sent successfully", <<peer>>),
                           Line("Refreshing conversation to show your message...")>>
                      \o ref.out]
handleSendMessage(t, peer, rd, sendResp, fetchResp) ==
    LET prompt  == <<LineAbout("Sending message to", <<peer>>), Line("Enter your message: ")>>
        reads   == <<LineEvent(t, rd)>>
        message == TrimSpace(rd.text)
        snd     == sendMessageToFriend(t, message, peer, sendResp)
        ref     == fetchConversation(t, peer, fetchResp)
    IN  IF rd.err
        THEN [err |-> TRUE, out |-> prompt, net |-> <<>>, tty |-> reads]
        ELSE IF message = <<>>
        THEN [err |-> FALSE, net |-> <<>>, tty |-> reads,
              out |-> prompt \o <<Line("Message cannot be empty. Message sending cancelled.")>>]
        ELSE IF snd.err
        THEN [err |-> TRUE, net |-> snd.net, tty |-> reads,
              out |-> prompt \o <<Line("Sending message...")>>]
        ELSE [err |-> FALSE, net |-> snd.net \o ref.net, tty |-> reads,
              out |-> prompt
                      \o <<Line("Sending message..."),
                           LineAbout("Message sent successfully", <<peer>>),
                           Line("Refreshing conversation to show your message...")>>
                      \o ref.out
                      \o (IF ref.err THEN <<Line("Error refreshing conversation")>> ELSE <<>>)]

\* The filter loop of handleFriendRequestResponse
IsRespondableAnyStatus(request) == TRUE
IsRespondable(request) ==
    ToLower(request.Status) = "pending" \/ ToLower(request.Status) = "rejected"

FilterRespondableKeepsAll(reqs) == reqs
RECURSIVE FilterRespondable(_)
FilterRespondable(reqs) ==
    IF reqs = <<>> THEN <<>>
    ELSE (IF IsRespondable(Head(reqs)) THEN <<Head(reqs)>> ELSE <<>>)
             \o FilterRespondable(Tail(reqs))

\* The range check on the parsed selection
ValidIndexOffByOne(idx, count) == ~idx.err /\ idx.val >= 0 /\ idx.val <= count + 1
ValidIndex(idx, count) == ~(idx.err \/ idx.val < 1 \/ idx.val > count)

\* handleFriendRequestResponse: list the respondable requests, read the
\* selection and the accept/reject choice, call respondToFriendRequest.
handleFriendRequestResponse(t, reqs, sel, act, resp) ==
    LET respondableRequests == FilterRespondable(reqs)
        count   == Len(respondableRequests)
        listing ==
            <<Line("=== Respond to Friend Requests ==="),
              Line("Available requests (pending/rejected only):")>>
            \o [i \in 1..count |->
                  LineAbout("option", <<i, respondableRequests[i].RequestID>>)]
            \o <<Line("Enter the number of the request to respond to: ")>>
        read1   == <<LineEvent(t, sel)>>
        requestIndex == Atoi(TrimSpace(sel.text))
        selectedRequest ==
            \* indexed only after the range check; out of range it is a panic
            IF requestIndex.val \in 1..count
            THEN respondableRequests[requestIndex.val]
            ELSE [RequestID |-> 0, SenderUsername |-> <<"panic: index out of range">>,
                  Status |-> "panic"]
        menu    ==
            <<LineAbout("Selected request from", selectedRequest.SenderUsername),
              Line("1. Accept"), Line("2. Reject"), Line("Enter your choice (1 or 2): ")>>
        read2   == <<LineEvent(t, act)>>
        actionChoice == Atoi(TrimSpace(act.text))
        action  == IF actionChoice.val = 1 THEN "accept" ELSE "reject"
        call    == respondToFriendRequest(t, selectedRequest.SenderUsername, action, resp)
    IN  IF count = 0
        THEN [net |-> <<>>, tty |-> <<>>,
              out |-> <<Line("No pending or rejected friend requests to respond to."),
                        Line("Only requests with 'pending' or 'rejected' status can be responded to.")>>]
        ELSE IF sel.err
        THEN [net |-> <<>>, tty |-> read1,
              out |-> listing \o <<Line("Error reading input")>>]
        ELSE IF ~ValidIndex(requestIndex, count)
        THEN [net |-> <<>>, tty |-> read1,
              out |-> listing \o <<Line("Invalid request number.")>>]
        ELSE IF act.err
        THEN [net |-> <<>>, tty |-> read1 \o read2,
              out |-> listing \o menu \o <<Line("Error reading input")>>]
        ELSE IF actionChoice.err \/ (actionChoice.val # 1 /\ actionChoice.val # 2)
        THEN [net |-> <<>>, tty |-> read1 \o read2,
              out |-> listing \o menu \o <<Line("Invalid choice.")>>]
        ELSE IF call.err
        THEN [net |-> call.net, tty |-> read1 \o read2,
              out |-> listing \o menu \o <<Line("Error responding to friend request")>>]
        ELSE [net |-> call.net, tty |-> read1 \o read2,
              out |-> listing \o menu
                      \o <<LineAbout("Successfully responded", <<action>>),
                           Line("Program will now exit.")>>]

-----------------------------------------------------------------------------
(* The read loops. A loop body works on the locals and the device:         *)
(*   [term, oldState, tty, net, out, ctl]                                  *)
(* ctl is "loop" (next iteration), "return" (the function returns, its     *)
(* deferred calls run) or "exit" (os.Exit: the process ends at once and    *)
(* deferred calls do not run).                                             *)

ConversationPrompt ==
    Line("Press CTRL+R to refresh conversation, CTRL+S to send message, or CTRL+C to exit...")
RequestsPrompt == Line("Press CTRL+R to respond to friend requests or CTRL+C to exit...")
RawModeError == Line("Error setting terminal to raw mode")
Farewell == Line("Exiting...")

\* `if err != nil { ...; return }` after re-entering raw mode
AfterReenterIgnoresError(m) == "loop"
AfterReenterAlwaysReturns(m) == "return"
AfterReenter(m) == IF m.err THEN "return" ELSE "loop"

\* `if buffer[0] == 18 { ... }` of waitForCtrlRInReceiveMessage
RefreshKeyFatalOnError(s, b, peer, fetchResp, io) ==
    IF s.ctl # "loop" \/ b # CtrlR THEN s
    ELSE LET r == restoreForReceiveMessage(s.term, s.oldState)
             f == fetchConversation(r.term, peer, fetchResp)
             m == makeRawForReceiveMessage(r.term, io)
         IN  [term     |-> m.term,
              oldState |-> m.oldState,
              tty      |-> s.tty \o <<TtyEvent("restore", s.term, ~r.err),
                                      TtyEvent("makeRaw", r.term, ~m.err)>>,
              net      |-> s.net \o f.net,
              out      |-> s.out \o <<Line("Refreshing conversation...")>> \o f.out
                           \o (IF f.err THEN <<Line("Error refreshing conversation")>> ELSE <<>>)
                           \o <<ConversationPrompt>>,
              ctl      |-> IF f.err \/ m.err THEN "return" ELSE "loop"]
RefreshKey(s, b, peer, fetchResp, io) ==
    IF s.ctl # "loop" \/ b # CtrlR THEN s
    ELSE LET r == restoreForReceiveMessage(s.term, s.oldState)
             f == fetchConversation(r.term, peer, fetchResp)
             m == makeRawForReceiveMessage(r.term, io)
         IN  [term     |-> m.term,
              oldState |-> m.oldState,
              tty      |-> s.tty \o <<TtyEvent("restore", s.term, ~r.err),
                                      TtyEvent("makeRaw", r.term, ~m.err)>>,
              net      |-> s.net \o f.net,
              out      |-> s.out \o <<Line("Refreshing conversation...")>> \o f.out
                           \o (IF f.err THEN <<Line("Error refreshing conversation")>> ELSE <<>>)
                           \o <<ConversationPrompt>>
                           \o (IF m.err THEN <<RawModeError>> ELSE <<>>),
              ctl      |-> AfterReenter(m)]

\* `if buffer[0] == 19 { ... }` of waitForCtrlRInReceiveMessage
ComposeKey(s, b, peer, rd, sendResp, fetchResp, io) ==
    IF s.ctl # "loop" \/ b # CtrlS THEN s
    ELSE LET r == restoreForReceiveMessage(s.term, s.oldState)
             h == handleSendMessage(r.term, peer, rd, sendResp, fetchResp)
             m == makeRawForReceiveMessage(r.term, io)
         IN  [term     |-> m.term,
              oldState |-> m.oldState,
              tty      |-> s.tty \o <<TtyEvent("restore", s.term, ~r.err)>> \o h.tty
                           \o <<TtyEvent("makeRaw", r.term, ~m.err)>>,
              net      |-> s.net \o h.net,
              out      |-> s.out \o <<Line("Send Message Mode")>> \o h.out
                           \o (IF h.err THEN <<Line("Error sending message")>> ELSE <<>>)
                           \o <<ConversationPrompt>>
                           \o (IF m.err THEN <<RawModeError>> ELSE <<>>),
              ctl      |-> AfterReenter(m)]

\* `if buffer[0] == 3 { ... }` of both loops: farewell, os.Exit(0)
InterruptKeySilent(s, b) ==
    IF s.ctl # "loop" \/ b # CtrlC THEN s ELSE [s EXCEPT !.ctl = "exit"]
InterruptKeyAnyOther(s, b) ==
    IF s.ctl # "loop" \/ b = CtrlR THEN s
    ELSE [s EXCEPT !.out = Append(@, Farewell), !.ctl = "exit"]
InterruptKeyFallsThrough(s, b) ==
    IF s.ctl # "loop" \/ b \notin {CtrlC, CtrlS} THEN s
    ELSE [s EXCEPT !.out = Append(@, Farewell), !.ctl = "exit"]
InterruptKey(s, b) ==
    IF s.ctl # "loop" \/ b # CtrlC THEN s
    ELSE [s EXCEPT !.out = Append(@, Farewell), !.ctl = "exit"]

\* `if buffer[0] == 18 { ... }` of waitForCtrlR: restore, run the respond
\* flow, return
RespondKeyResumes(s, b, reqs, sel, act, resp) ==
    IF s.ctl # "loop" \/ b # CtrlR THEN s
    ELSE LET r == restore(s.term, s.oldState)
             h == handleFriendRequestResponse(r.term, reqs, sel, act, resp)
             m == makeRaw(r.term, "ok")
         IN  [term     |-> m.term,
              oldState |-> m.oldState,
              tty      |-> s.tty \o <<TtyEvent("restore", s.term, ~r.err)>> \o h.tty
                           \o <<TtyEvent("makeRaw", r.term, ~m.err)>>,
              net      |-> s.net \o h.net,
              out      |-> s.out \o h.out,
              ctl      |-> "loop"]
RespondKey(s, b, reqs, sel, act, resp) ==
    IF s.ctl # "loop" \/ b # CtrlR THEN s
    ELSE LET r == restore(s.term, s.oldState)
             h == handleFriendRequestResponse(r.term, reqs, sel, act, resp)
         IN  [term     |-> r.term,
              oldState |-> s.oldState,
              tty      |-> s.tty \o <<TtyEvent("restore", s.term, ~r.err)>> \o h.tty,
              net      |-> s.net \o h.net,
              out      |-> s.out \o h.out,
              ctl      |-> "return"]

\* os.Stdin.Read at the top of either loop
ReadByte(s, rd) ==
    LET t == [s EXCEPT !.tty = Append(@, ReadEvent(s.term, rd))]
    IN  IF rd.err
        THEN [t EXCEPT !.out = Append(@, Line("Error reading input")), !.ctl = "return"]
        ELSE t

\* The deferred restore calls of a returning loop function, with the
\* arguments captured when they were deferred.
RunDeferredWithCurrentLocal(s, pending) ==
    IF s.ctl # "return" \/ pending = <<>> THEN s
    ELSE LET r == restore(s.term, s.oldState)
         IN  [s EXCEPT !.term = r.term,
                       !.tty = Append(@, TtyEvent("restore", s.term, ~r.err))]
RECURSIVE RunDeferred(_, _)
RunDeferred(s, pending) ==
    IF s.ctl # "return" \/ pending = <<>> THEN s
    ELSE LET r == restore(s.term, pending[Len(pending)])
         IN  RunDeferred([s EXCEPT !.term = r.term,
                                   !.tty = Append(@, TtyEvent("restore", s.term, ~r.err))],
                         SubSeq(pending, 1, Len(pending) - 1))

\* One iteration of the loop of waitForCtrlRInReceiveMessage
ConversationIteration(s, rd, peer, line, sendResp, fetchResp, io) ==
    LET afterRead == ReadByte(s, rd)
    IN  IF afterRead.ctl = "loop" /\ rd.n > 0
        THEN InterruptKey(
                 ComposeKey(
                     RefreshKey(afterRead, rd.b, peer, fetchResp, io),
                     rd.b, peer, line, sendResp, fetchResp, io),
                 rd.b)
        ELSE afterRead

\* One iteration of the loop of waitForCtrlR
RequestsIteration(s, rd, reqs, sel, act, resp) ==
    LET afterRead == ReadByte(s, rd)
    IN  IF afterRead.ctl = "loop" /\ rd.n > 0
        THEN InterruptKey(RespondKey(afterRead, rd.b, reqs, sel, act, resp), rd.b)
        ELSE afterRead

\* The set-up of either loop: makeRaw, and on success `defer restore(fd, oldState)`
EnterRaw(s, io) ==
    LET m == makeRaw(s.term, io)
    IN  [term     |-> m.term,
         oldState |-> m.oldState,
         tty      |-> Append(s.tty, TtyEvent("makeRaw", s.term, ~m.err)),
         net      |-> s.net,
         out      |-> s.out \o (IF m.err THEN <<RawModeError>> ELSE <<>>),
         ctl      |-> IF m.err THEN "return" ELSE "loop"]

Locals == [term |-> term, oldState |-> oldState, tty |-> tty, net |-> net,
           out |-> stdout, ctl |-> "loop"]

-----------------------------------------------------------------------------
(* Set-up code of the two commands                                         *)

\* selectFriendForReceiveMessage: Scanln a token, Atoi, range check, index.
\* `index` is the slice index of `&friends.Friends[choiceNum-1]`, if the
\* function got that far; outside the slice the access panics.
selectFriendForReceiveMessage(list, rd) ==
    LET choice    == IF rd.err THEN <<>> ELSE Scanln(rd.text)
        choiceNum == Atoi(choice)
    IN  IF choiceNum.err \/ choiceNum.val < 1 \/ choiceNum.val > Len(list)
        THEN [err |-> TRUE, friend |-> "", index |-> <<>>]
        ELSE [err |-> FALSE,
              friend |-> IF choiceNum.val - 1 \in 0..(Len(list) - 1)
                         THEN list[choiceNum.val] ELSE "panic: index out of range",
              index |-> <<choiceNum.val - 1>>]

\* The same function in send_message.go and in modules/receive_message.go
selectFriend(list, rd) == selectFriendForReceiveMessage(list, rd)
selectFriendStandalone(list, rd) == selectFriendForReceiveMessage(list, rd)

\* displayFriendRequestMenu: Scanln a token, Atoi, must be 1 or 2
displayFriendRequestMenu(rd) ==
    LET choice    == IF rd.err THEN <<>> ELSE Scanln(rd.text)
        choiceNum == Atoi(choice)
    IN  IF choiceNum.err \/ choiceNum.val < 1 \/ choiceNum.val > 2
        THEN [err |-> TRUE, choice |-> 0]
        ELSE [err |-> FALSE, choice |-> choiceNum.val]

\* The state after os.Exit(1) in set-up code: nothing entered raw mode yet
Fail(lines, calls, reads) ==
    /\ pc' = "exited"
    /\ exitCode' = 1
    /\ stdout' = stdout \o lines
    /\ net' = net \o calls
    /\ tty' = tty \o reads
    /\ UNCHANGED <<command, origTerm, term, oldState, deferred, friend, requests,
                   netAtEntry, result, offSession, running>>

\* The state after the loop function was entered with locals s (after EnterRaw)
Entered(s) ==
    /\ pc' = IF s.ctl = "loop" THEN "RAW_WAIT" ELSE "returned"
    /\ result' = IF s.ctl = "loop" THEN result ELSE "nil"
    /\ term' = s.term
    /\ oldState' = s.oldState
    /\ deferred' = IF s.ctl = "loop" THEN <<s.oldState>> ELSE <<>>
    /\ tty' = s.tty
    /\ net' = s.net
    /\ netAtEntry' = Len(s.net)
    /\ stdout' = s.out
    /\ UNCHANGED <<command, origTerm, exitCode, offSession, running>>

\* receive_message up to the first read of its loop
receive_message ==
    /\ pc = "main" /\ command = "receive"
    /\ \E tokenOk \in BOOLEAN, friendsResp \in HttpResponses, list \in FriendLists,
          pick \in NumberLines, fetchResp \in HttpResponses, io \in IoctlOutcomes :
        LET friendsCall == <<Returned(NetCall("fetchFriends", term, "", <<>>),
                                        friendsResp # "status_200_json")>>
            pickRead    == <<TtyEvent("readLine", term, ~pick.err)>>
            sel         == selectFriendForReceiveMessage(list, pick)
            conv        == fetchConversation(term, sel.friend, fetchResp)
        IN  \* (a response that is an error carries no list)
            /\ friendsResp = "status_200_json" \/ list = <<>>
            /\ IF ~tokenOk
               THEN Fail(<<Line("Error reading token")>>, <<>>, <<>>)
               ELSE IF friendsResp # "status_200_json"
               THEN Fail(<<Line("Error fetching friends")>>, friendsCall, <<>>)
               ELSE IF Len(list) = 0
               THEN Fail(<<Line("No friends found in your friends list.")>>, friendsCall, <<>>)
               ELSE IF sel.err
               THEN Fail(<<Line("Error selecting friend")>>, friendsCall, pickRead)
               ELSE IF conv.err
               THEN Fail(<<Line("Error fetching conversation")>>,
                         friendsCall \o conv.net, pickRead)
               ELSE /\ friend' = sel.friend
                    /\ requests' = requests
                    /\ Entered(EnterRaw(
                           [Locals EXCEPT !.tty = @ \o pickRead,
                                          !.net = @ \o friendsCall \o conv.net,
                                          !.out = @ \o <<LineAbout("Selected", <<sel.friend>>)>>
                                                    \o conv.out \o <<ConversationPrompt>>],
                           io))

\* manageFriendRequests -> handleIncomingRequests / handleOutgoingRequests,
\* up to the first read of waitForCtrlR
manageFriendRequests ==
    /\ pc = "main" /\ command = "requests"
    /\ \E tokenOk \in BOOLEAN, pick \in NumberLines, listResp \in HttpResponses,
          reqs \in RequestLists, io \in IoctlOutcomes :
        LET menu     == displayFriendRequestMenu(pick)
            pickRead == <<TtyEvent("readLine", term, ~pick.err)>>
            incoming == <<Returned(NetCall("listPendingRequests", term, "", <<>>),
                                     listResp # "status_200_json")>>
            outgoing == <<Returned(NetCall("listOutgoingRequests", term, "", <<>>),
                                     listResp # "status_200_json")>>
        IN  \* (a response that is an error carries no list)
            /\ listResp = "status_200_json" \/ reqs = <<>>
            /\ IF ~tokenOk
               THEN Fail(<<Line("Error reading token")>>, <<>>, <<>>)
               ELSE IF menu.err
               THEN Fail(<<Line("Error getting user choice")>>, <<>>, pickRead)
               ELSE IF menu.choice = 2
               THEN IF listResp # "status_200_json"
                    THEN Fail(<<Line("Error handling friend requests")>>, outgoing, pickRead)
                    ELSE /\ pc' = "returned"
                         /\ result' = "nil"
                         /\ stdout' = Append(stdout, Line("=== Outgoing Friend Requests ==="))
                         /\ net' = net \o outgoing
                         /\ tty' = tty \o pickRead
                         /\ UNCHANGED <<command, origTerm, term, oldState, deferred, friend,
                                        requests, netAtEntry, exitCode, offSession, running>>
               ELSE IF listResp # "status_200_json"
               THEN Fail(<<Line("Error handling friend requests")>>, incoming, pickRead)
               ELSE /\ requests' = reqs
                    /\ friend' = friend
                    /\ Entered(EnterRaw(
                           [Locals EXCEPT !.tty = @ \o pickRead,
                                          !.net = @ \o incoming,
                                          !.out = @ \o <<Line("=== Incoming Friend Requests ==="),
                                                         RequestsPrompt>>],
                           io))

-----------------------------------------------------------------------------
(* The loops as actions: one iteration each                                *)

\* The state after an iteration that left the locals s
Iterated(s0) ==
    LET s == RunDeferred(s0, deferred)
    IN  /\ pc' = CASE s.ctl = "loop"   -> "RAW_WAIT"
                   [] s.ctl = "return" -> "returned"
                   [] s.ctl = "exit"   -> "exited"
        /\ result' = IF s.ctl = "return" THEN "nil" ELSE result
        /\ exitCode' = IF s.ctl = "exit" THEN 0 ELSE exitCode
        /\ deferred' = IF s.ctl = "return" THEN <<>> ELSE deferred
        /\ term' = s.term
        /\ oldState' = s.oldState
        /\ tty' = s.tty
        /\ net' = s.net
        /\ stdout' = s.out
        /\ UNCHANGED <<command, origTerm, friend, requests, netAtEntry, offSession>>

\* Inputs an iteration does not consume are fixed, to enumerate each
\* behaviour once.
NoLine == ReadError
NoResp == "transport_error"

\* An input the handler never asked for (no read, no call made) is fixed.
OnlyConsumed(h, inLines, inResps) ==
    /\ \A i \in DOMAIN inLines : i <= Len(h.tty) \/ inLines[i] = NoLine
    /\ \A i \in DOMAIN inResps : i <= Len(h.net) \/ inResps[i] = NoResp

waitForCtrlRInReceiveMessage ==
    /\ running' = running
    /\ pc = "RAW_WAIT" /\ command = "receive"
    /\ Count(tty, "read") < MaxReads
    /\ \/ \E rd \in ByteReads :
            /\ rd.err \/ rd.b \notin {CtrlR, CtrlS}
            /\ Iterated(ConversationIteration(Locals, rd, friend, NoLine, NoResp, NoResp, "ok"))
       \/ \E rd \in ByteReads, fetchResp \in HttpResponses, io \in IoctlOutcomes :
            /\ ~rd.err /\ rd.b = CtrlR
            /\ Iterated(ConversationIteration(Locals, rd, friend, NoLine, NoResp, fetchResp, io))
       \/ \E rd \in ByteReads, line \in MessageLines, sendResp \in HttpResponses,
             fetchResp \in HttpResponses, io \in IoctlOutcomes :
            /\ ~rd.err /\ rd.b = CtrlS
            /\ OnlyConsumed(handleSendMessage(term, friend, line, sendResp, fetchResp),
                            <<line>>, <<sendResp, fetchResp>>)
            /\ Iterated(ConversationIteration(Locals, rd, friend, line, sendResp, fetchResp, io))

waitForCtrlR ==
    /\ running' = running
    /\ pc = "RAW_WAIT" /\ command = "requests"
    /\ Count(tty, "read") < MaxReads
    /\ \/ \E rd \in ByteReads :
            /\ rd.err \/ rd.b # CtrlR
            /\ Iterated(RequestsIteration(Locals, rd, requests, NoLine, NoLine, NoResp))
       \/ \E rd \in ByteReads, sel \in NumberLines, act \in ChoiceLines,
             resp \in HttpResponses :
            /\ ~rd.err /\ rd.b = CtrlR
            /\ OnlyConsumed(handleFriendRequestResponse(term, requests, sel, act, resp),
                            <<sel, act>>, <<resp>>)
            /\ Iterated(RequestsIteration(Locals, rd, requests, sel, act, resp))

\* main after the command function returned: report, then the process ends
main ==
    /\ pc = "returned"
    /\ pc' = "exited"
    /\ exitCode' = IF result = "nil" THEN 0 ELSE 1
    /\ stdout' = Append(stdout,
                        IF result # "nil" THEN LineAbout("failed", <<command>>)
                        ELSE IF command = "receive"
                             THEN Line("Message received successfully!")
                             ELSE IF command = "search"
                             THEN Line("Search completed successfully!")
                             ELSE Line("Requests received successfully!"))
    /\ UNCHANGED <<command, origTerm, term, oldState, deferred, friend, requests,
                   tty, net, netAtEntry, result, offSession, running>>

Init ==
    /\ pc = "main"
    /\ command \in {"receive", "requests"}
    /\ origTerm \in CookedConfigs
    /\ term = origTerm
    /\ oldState = <<>>
    /\ deferred = <<>>
    /\ friend = ""
    /\ requests = <<>>
    /\ tty = <<>>
    /\ net = <<>>
    /\ stdout = <<>>
    /\ netAtEntry = 0
    /\ result = "none"
    /\ exitCode = -1
    /\ friends = <<>>
    /\ indexed = <<>>
    /\ stdin = <<>>
    /\ friendsFile = [exists |-> FALSE, bytes |-> "none", friends |-> <<>>]
    /\ running = <<>>

Next ==
    \/ receive_message
    \/ manageFriendRequests
    \/ waitForCtrlRInReceiveMessage
    \/ waitForCtrlR
    \/ main

Spec == Init /\ [][Next]_vars

-----------------------------------------------------------------------------
(* The conversation session with the key read and the return of its        *)
(* handler as two steps: between them the controller is in ACTION_RUNNING  *)

\* os.Stdin.Read returns in the loop of waitForCtrlRInReceiveMessage, and the
\* branch for the byte starts; `running` holds the locals it will leave,
\* given what its collaborators and the terminal are going to answer.
readInReceiveMessage ==
    /\ pc = "RAW_WAIT" /\ command = "receive"
    /\ Count(tty, "read") < MaxReads
    /\ \E rd \in ByteReads :
        /\ tty' = Append(tty, ReadEvent(term, rd))
        /\ \/ /\ rd.err \/ rd.b \notin {CtrlR, CtrlS}
              /\ running' = <<ConversationIteration(Locals, rd, friend, NoLine, NoResp,
                                                    NoResp, "ok")>>
           \/ \E fetchResp \in HttpResponses, io \in IoctlOutcomes :
                /\ ~rd.err /\ rd.b = CtrlR
                /\ running' = <<ConversationIteration(Locals, rd, friend, NoLine, NoResp,
                                                      fetchResp, io)>>
           \/ \E line \in MessageLines, sendResp \in HttpResponses,
                 fetchResp \in HttpResponses, io \in IoctlOutcomes :
                /\ ~rd.err /\ rd.b = CtrlS
                /\ OnlyConsumed(handleSendMessage(term, friend, line, sendResp, fetchResp),
                                <<line>>, <<sendResp, fetchResp>>)
                /\ running' = <<ConversationIteration(Locals, rd, friend, line, sendResp,
                                                      fetchResp, io)>>
    /\ pc' = "ACTION_RUNNING"
    /\ UNCHANGED <<command, origTerm, term, oldState, deferred, friend, requests,
                   net, stdout, netAtEntry, result, exitCode, offSession>>

\* The branch has run to its end: the loop goes round, the loop function
\* returns, or the process has exited
handlerReturns ==
    /\ pc = "ACTION_RUNNING"
    /\ Iterated(running[1])
    /\ running' = <<>>

\* The conversation session
LiveInit == Init /\ command = "receive"

NextLive ==
    \/ receive_message
    \/ readInReceiveMessage
    \/ handlerReturns
    \/ main

\* A started handler runs on (its collaborator calls and cooked reads
\* return), and main runs on after the command function returned; the next
\* key may never come.
LiveSpec ==
    /\ LiveInit /\ [][NextLive]_vars
    /\ WF_vars(handlerReturns)
    /\ WF_vars(main)

-----------------------------------------------------------------------------
(* selectFriend on its own: a friends list, one typed line                 *)

\* Lines typed at the "Select friend" prompt
SelectLines ==
    NumberLines \cup
    {[err |-> FALSE, text |-> t] :
        t \in WithNewline({<<"3">>, <<"4">>, <<"+", "1">>, <<"1", " ", "x">>,
                           <<"2", "\t", "7">>, <<"x", " ", "1">>})}

\* Fetched friends lists that are not empty
Names == <<"f1", "f2", "f3", "f4">>
NonEmptyFriendLists == {SubSeq(Names, 1, n) : n \in 1..MaxFriends}

\* The state after a selectFriend function returned r for the line rd
Selected(r, rd) ==
    /\ pc' = "returned"
    /\ result' = IF r.err THEN "error" ELSE "nil"
    /\ friend' = r.friend
    /\ indexed' = indexed \o r.index
    /\ tty' = Append(tty, LineEvent(term, rd))
    /\ stdin' = IF rd.err THEN <<>> ELSE ScanlnRest(rd.text)
    /\ UNCHANGED <<command, origTerm, term, oldState, deferred, requests, net, stdout,
                   netAtEntry, exitCode, friends, friendsFile, running>>

SelectForSend ==
    /\ pc = "main" /\ command = "send"
    /\ \E rd \in SelectLines : Selected(selectFriend(friends, rd), rd)

SelectForReceive ==
    /\ pc = "main" /\ command = "receive"
    /\ \E rd \in SelectLines : Selected(selectFriendForReceiveMessage(friends, rd), rd)

SelectStandalone ==
    /\ pc = "main" /\ command = "modules/receive_message"
    /\ \E rd \in SelectLines : Selected(selectFriendStandalone(friends, rd), rd)

SelectInit ==
    /\ pc = "main"
    /\ command \in {"send", "receive", "modules/receive_message"}
    /\ origTerm \in CookedConfigs
    /\ term = origTerm
    /\ oldState = <<>>
    /\ deferred = <<>>
    /\ friend = ""
    /\ requests = <<>>
    /\ tty = <<>>
    /\ net = <<>>
    /\ stdout = <<>>
    /\ netAtEntry = 0
    /\ result = "none"
    /\ exitCode = -1
    /\ friends \in NonEmptyFriendLists
    /\ indexed = <<>>
    /\ stdin = <<>>
    /\ friendsFile = [exists |-> FALSE, bytes |-> "none", friends |-> <<>>]
    /\ running = <<>>

SelectNext ==
    \/ SelectForSend
    \/ SelectForReceive
    \/ SelectStandalone

SelectSpec == SelectInit /\ [][SelectNext]_vars

-----------------------------------------------------------------------------
(* The friends file and addFriend                                          *)

\* friends.json as the file system holds it: absent, or bytes that are
\* empty, a cut-off document, or a document with a list of objects
NoFile == [exists |-> FALSE, bytes |-> "none", friends |-> <<>>]
EmptyFile == [exists |-> TRUE, bytes |-> "empty", friends |-> <<>>]
PartialFile == [exists |-> TRUE, bytes |-> "partial", friends |-> <<>>]

\* encoder.Encode(friendsData): each Friend becomes an object with the keys
\* of its json tags
Encode(list) ==
    [exists  |-> TRUE,
     bytes   |-> "document",
     friends |-> [i \in DOMAIN list |->
                    [user_id  |-> list[i].UserID,
                     username |-> list[i].Username,
                     added_at |-> list[i].AddedAt]]]

\* decoder.Decode(&friendsData): the list of a document; on any other bytes
\* an error, and friendsData keeps its zero value
Decode(file) ==
    IF file.bytes = "document"
    THEN [err |-> FALSE,
          Friends |-> [i \in DOMAIN file.friends |->
                         [UserID   |-> file.friends[i].user_id,
                          Username |-> file.friends[i].username,
                          AddedAt  |-> file.friends[i].added_at]]]
    ELSE [err |-> TRUE, Friends |-> <<>>]

\* time.Now().Format(time.RFC3339) at the k-th run
RFC3339(k) == <<"T", k>>

\* What the file system may answer to addFriend
FileOutcomes == {"ok", "MkdirAll_fails", "Create_fails", "Encode_fails"}

\* The bytes a failed write leaves in the file os.Create has truncated
FailedWrites == {EmptyFile, PartialFile}

\* addFriend(friendsPath, userID, username)
addFriend(file, userID, username, now, io, failedWrite) ==
    LET friendsData == IF file.exists THEN Decode(file).Friends ELSE <<>>
        newFriend   == [UserID |-> userID, Username |-> username, AddedAt |-> now]
    IN  IF io = "MkdirAll_fails"
        THEN [err |-> TRUE, file |-> file]
        ELSE IF \E i \in DOMAIN friendsData : friendsData[i].UserID = userID
        THEN [err |-> TRUE, file |-> file]
        ELSE IF io = "Create_fails"
        THEN [err |-> TRUE, file |-> file]
        ELSE IF io = "Encode_fails"
        THEN [err |-> TRUE, file |-> failedWrite]
        ELSE [err |-> FALSE, file |-> Encode(Append(friendsData, newFriend))]

\* user_data of a search response
SearchResults ==
    {[UserID |-> "u1", Username |-> "alice"],
     [UserID |-> "u2", Username |-> "bob"],
     [UserID |-> "u3", Username |-> "carol"]}

\* One run of the command that searches a user and adds it to friends.json
friendCommand ==
    /\ pc = "main" /\ command = "search"
    /\ Len(net) < MaxAdds
    /\ \E searchResp \in HttpResponses, found \in SearchResults, io \in FileOutcomes,
          failedWrite \in FailedWrites :
        LET call  == Returned(NetCall("searchUser", term, "", <<>>),
                              searchResp # "status_200_json")
            added == addFriend(friendsFile, found.UserID, found.Username,
                               RFC3339(Len(net) + 1), io, failedWrite)
        IN  /\ net' = Append(net, call)
            /\ IF searchResp # "status_200_json"
               THEN /\ stdout' = Append(stdout, Line("Error searching user"))
                    /\ friendsFile' = friendsFile
                    /\ exitCode' = 1
               ELSE /\ stdout' = stdout \o
                        <<LineAbout("User found", <<found.Username, found.UserID>>),
                          IF added.err
                          THEN LineAbout("Error adding friend", <<found.Username>>)
                          ELSE LineAbout("Successfully added", <<found.Username>>)>>
                    /\ friendsFile' = added.file
                    /\ exitCode' = IF added.err THEN 1 ELSE 0
    /\ pc' = "main"
    /\ UNCHANGED <<command, origTerm, term, oldState, deferred, friend, requests, tty,
                   netAtEntry, result, friends, indexed, stdin, running>>

\* Friends files that hold no user id twice
StoredEntry(u) == [user_id |-> u.UserID, username |-> u.Username, added_at |-> RFC3339(0)]
DuplicateFreeFiles ==
    {[exists |-> TRUE, bytes |-> "document", friends |-> l] :
        l \in {<<>>} \cup {<<StoredEntry(u)>> : u \in SearchResults}
                \cup {<<StoredEntry(p[1]), StoredEntry(p[2])>> :
                        p \in {q \in SearchResults \X SearchResults : q[1] # q[2]}}}

FileInit ==
    /\ pc = "main"
    /\ command = "search"
    /\ origTerm \in CookedConfigs
    /\ term = origTerm
    /\ oldState = <<>>
    /\ deferred = <<>>
    /\ friend = ""
    /\ requests = <<>>
    /\ tty = <<>>
    /\ net = <<>>
    /\ stdout = <<>>
    /\ netAtEntry = 0
    /\ result = "none"
    /\ exitCode = -1
    /\ friends = <<>>
    /\ indexed = <<>>
    /\ stdin = <<>>
    /\ friendsFile \in {NoFile, EmptyFile} \cup DuplicateFreeFiles
    /\ running = <<>>

FileNext == friendCommand

FileSpec == FileInit /\ [][FileNext]_vars

-----------------------------------------------------------------------------
(* The interactive search loop                                             *)

Quit == <<"q", "u", "i", "t">>
Exit == <<"e", "x", "i", "t">>
Affirmative == {<<"y">>, <<"Y">>, <<"y", "e", "s">>, <<"Y", "e", "s">>, <<"Y", "E", "S">>}

\* Lines typed at the "Enter username to search" prompt
UsernameLines ==
    {[err |-> FALSE, text |-> t] :
        t \in WithNewline({<<>>, Quit, Exit, <<"b", "o", "b">>, <<"Q", "u", "i", "t">>,
                           <<"q", "u", "i", "t", " ", "x">>,
                           <<"b", "o", "b", " ", "y", "y">>})}
        \cup {ReadError}

\* Lines typed at the "(y/n)" prompt
AnswerLines ==
    {[err |-> FALSE, text |-> t] :
        t \in WithNewline({<<>>, <<"n">>, <<"y", "E", "s">>, <<"y", " ", "x">>} \cup Affirmative)}
        \cup {ReadError}

\* Outcome of the exchange of sendFriendRequest, which also takes 201
FriendRequestResponses == HttpResponses \cup {"status_201_json"}

\* fmt.Scanln(&s) on a stdin that holds buf unread; with nothing unread the
\* process waits for the line rd. `typed` is that line, `scanned` the token.
ScanFrom(t, buf, rd) ==
    LET text == IF buf # <<>> THEN buf ELSE rd.text
        eof  == buf = <<>> /\ rd.err
        word == IF eof THEN <<>> ELSE Scanln(text)
    IN  [token |-> word,
         rest  |-> IF eof THEN <<>> ELSE ScanlnRest(text),
         tty   |-> (IF buf = <<>> THEN <<LineEvent(t, rd)>> ELSE <<>>)
                   \o <<[TtyEvent("Scanln", t, ~eof) EXCEPT !.text = word]>>]

\* searchUser(username, token): the header carries the typed word; an error
\* unless the status is 200 and the body decodes
searchUser(t, username, resp) ==
    LET failed == resp # "status_200_json"
    IN  [err |-> failed,
         net |-> <<Returned(NetCall("searchUser", t, "", username), failed)>>]

\* sendFriendRequest(username, token): an error unless the status is 200 or
\* 201 and the body decodes
sendFriendRequest(t, username, resp) ==
    LET failed == resp \notin {"status_200_json", "status_201_json"}
    IN  [err |-> failed,
         net |-> <<Returned(NetCall("sendFriendRequest", t, username, <<>>), failed)>>,
         out |-> IF failed THEN <<>>
                 ELSE <<LineAbout("Friend request sent successfully to", <<username>>)>>]

SearchPrompt == Line("Enter username to search (or 'quit' to exit): ")

\* One iteration of the loop of friend() in search.go, on a stdin that holds
\* buf unread
SearchIteration(t, buf, rd1, searchResp, found, rd2, sendResp) ==
    LET first  == ScanFrom(t, buf, rd1)
        input  == first.token
        search == searchUser(t, input, searchResp)
        second == ScanFrom(t, first.rest, rd2)
        choice == second.token
        send   == sendFriendRequest(t, found.Username, sendResp)
        asked  == <<LineAbout("User found", <<found.Username, found.UserID>>),
                    LineAbout("Do you want to send a friend request to", <<found.Username>>)>>
    IN  IF input \in {Quit, Exit}
        THEN [ctl |-> "break", stdin |-> first.rest, tty |-> first.tty, net |-> <<>>,
              out |-> <<SearchPrompt, Line("Goodbye!")>>]
        ELSE IF input = <<>>
        THEN [ctl |-> "loop", stdin |-> first.rest, tty |-> first.tty, net |-> <<>>,
              out |-> <<SearchPrompt, Line("Please enter a username")>>]
        ELSE IF search.err
        THEN [ctl |-> "loop", stdin |-> first.rest, tty |-> first.tty, net |-> search.net,
              out |-> <<SearchPrompt, Line("Error searching user")>>]
        ELSE IF choice \in Affirmative
        THEN [ctl |-> "loop", stdin |-> second.rest, tty |-> first.tty \o second.tty,
              net |-> search.net \o send.net,
              out |-> <<SearchPrompt>> \o asked \o send.out
                      \o (IF send.err THEN <<Line("Error sending friend request")>> ELSE <<>>)]
        ELSE [ctl |-> "loop", stdin |-> second.rest, tty |-> first.tty \o second.tty,
              net |-> search.net,
              out |-> <<SearchPrompt>> \o asked \o <<Line("Friend request not sent.")>>]

\* friend() of search.go up to its loop: the token is read, the banner printed
friendSetUp ==
    /\ pc = "main" /\ command = "search"
    /\ \E tokenOk \in BOOLEAN :
        IF ~tokenOk
        THEN Fail(<<Line("Error reading token")>>, <<>>, <<>>)
        ELSE /\ pc' = "SEARCH_PROMPT"
             /\ stdout' = Append(stdout, Line("Chat App - User Search"))
             /\ UNCHANGED <<command, origTerm, term, oldState, deferred, friend, requests,
                            tty, net, netAtEntry, result, exitCode, offSession, running>>

\* One iteration of the loop. Inputs the iteration does not consume (a line
\* when stdin still holds characters, a response when no call is made) are
\* fixed, to enumerate each behaviour once.
friendLoop ==
    /\ pc = "SEARCH_PROMPT"
    /\ Printed(stdout, SearchPrompt) < MaxSearches
    /\ \E rd1 \in IF stdin = <<>> THEN UsernameLines ELSE {NoLine} :
        LET first    == ScanFrom(term, stdin, rd1)
            searches == first.token \notin {Quit, Exit, <<>>}
        IN  \E searchResp \in IF searches THEN HttpResponses ELSE {NoResp} :
            LET asks == searches /\ ~searchUser(term, first.token, searchResp).err
            IN  \E found \in IF asks THEN SearchResults
                             ELSE {[UserID |-> "u1", Username |-> "alice"]},
                   rd2 \in IF asks /\ first.rest = <<>> THEN AnswerLines ELSE {NoLine},
                   sendResp \in IF asks THEN FriendRequestResponses ELSE {NoResp} :
                LET it == SearchIteration(term, stdin, rd1, searchResp, found, rd2, sendResp)
                IN  /\ Len(it.net) = 2 \/ sendResp = NoResp
                    /\ pc' = IF it.ctl = "break" THEN "returned" ELSE "SEARCH_PROMPT"
                    /\ result' = IF it.ctl = "break" THEN "nil" ELSE result
                    /\ stdin' = it.stdin
                    /\ tty' = tty \o it.tty
                    /\ net' = net \o it.net
                    /\ stdout' = stdout \o it.out
    /\ UNCHANGED <<command, origTerm, term, oldState, deferred, friend, requests,
                   netAtEntry, exitCode, friends, indexed, friendsFile, running>>

SearchInit ==
    /\ pc = "main"
    /\ command = "search"
    /\ origTerm \in CookedConfigs
    /\ term = origTerm
    /\ oldState = <<>>
    /\ deferred = <<>>
    /\ friend = ""
    /\ requests = <<>>
    /\ tty = <<>>
    /\ net = <<>>
    /\ stdout = <<>>
    /\ netAtEntry = 0
    /\ result = "none"
    /\ exitCode = -1
    /\ friends = <<>>
    /\ indexed = <<>>
    /\ stdin = <<>>
    /\ friendsFile = NoFile
    /\ running = <<>>

SearchNext ==
    \/ friendSetUp
    \/ friendLoop
    \/ main

SearchSpec == SearchInit /\ [][SearchNext]_vars

-----------------------------------------------------------------------------
(* Properties                                                              *)

\* What one step added to the histories
NewTty == SubSeq(tty', Len(tty) + 1, Len(tty'))
NewNet == SubSeq(net', Len(net) + 1, Len(net'))
NewOut == SubSeq(stdout', Len(stdout) + 1, Len(stdout'))

Range(seq) == {seq[i] : i \in DOMAIN seq}

\* The step reads key k in RAW_WAIT
KeyRead(k) ==
    /\ pc = "RAW_WAIT"
    /\ NewTty # <<>>
    /\ NewTty[1].op = "read" /\ NewTty[1].ok /\ NewTty[1].key = k

Ended == pc \in {"returned", "exited"}

EnterRawCalls == Count(tty, "makeRaw")
EnterRawSuccesses == Cardinality({i \in DOMAIN tty : tty[i].op = "makeRaw" /\ tty[i].ok})
RestoreCalls == Count(tty, "restore")

\* Positions of the reads of key k
ReadsOf(k) == {i \in DOMAIN tty : tty[i].op = "read" /\ tty[i].ok /\ tty[i].key = k}

\* C1: when a session has ended (the loop function returned or the process
\* exited), restore was called exactly as often as makeRaw succeeded.
C1_RestoreOncePerEntry == Ended => RestoreCalls = EnterRawSuccesses

\* C2: when a session has ended, the terminal is back in its original cooked
\* (canonical, echoing) configuration.
C2_CookedAtEnd == Ended => (IsCooked(term) /\ term = origTerm)

\* C3: a read of the interrupt key in RAW_WAIT prints the farewell line and
\* ends the process with status 0 without any collaborator call in between;
\* when it is the first byte read, the loop has made no collaborator call.
C3_InterruptExitsCleanly ==
    [][KeyRead(CtrlC) =>
          /\ pc' = "exited" /\ exitCode' = 0
          /\ NewOut = <<Farewell>>
          /\ net' = net
          /\ (Count(tty, "read") = 0 => Len(net') = netAtEntry')]_vars

C3_Witness ==
    /\ pc = "exited" /\ exitCode = 0
    /\ Count(tty, "read") = 1 /\ ReadsOf(CtrlC) # {}
    /\ stdout[Len(stdout)] = Farewell
    /\ Len(net) = netAtEntry

\* The keys a loop acts on
Recognized == IF command = "receive" THEN {CtrlR, CtrlS, CtrlC} ELSE {CtrlR, CtrlC}

\* C4: a read of a byte that is no recognized key leaves the controller in
\* RAW_WAIT and changes nothing: no output, no terminal operation, the
\* terminal still raw, no collaborator call; only the byte is consumed.
C4_UnrecognizedKeyIgnored ==
    [][(/\ pc = "RAW_WAIT" /\ NewTty # <<>>
        /\ NewTty[1].op = "read" /\ NewTty[1].ok /\ NewTty[1].key \notin Recognized) =>
          /\ pc' = "RAW_WAIT"
          /\ Len(NewTty) = 1
          /\ stdout' = stdout /\ net' = net
          /\ term' = term /\ IsRaw(term')
          /\ oldState' = oldState /\ deferred' = deferred
          /\ exitCode' = exitCode /\ result' = result]_vars

C4_Witness ==
    /\ pc = "RAW_WAIT" /\ command = "requests"
    /\ Count(tty, "read") = 2
    /\ ReadsOf(CtrlS) # {} /\ ReadsOf(65) # {}
    /\ IsRaw(term)

\* C5: a read of the refresh key makes exactly one fetchConversation call, for
\* the selected peer, then calls makeRaw once more, and with raw mode entered
\* the controller is in RAW_WAIT again; so with only refresh keys read, the
\* loop has made as many fetchConversation calls as keys were read, all for
\* the selected peer.
C5_RefreshFetchesOnce ==
    /\ [][(command = "receive" /\ KeyRead(CtrlR)) =>
            /\ Len(NewNet) = 1
            /\ NewNet[1].op = "fetchConversation" /\ NewNet[1].to = friend
            /\ friend' = friend
            /\ Len(SelectSeq(NewTty, LAMBDA e : e.op = "makeRaw")) = 1
            /\ (\A i \in DOMAIN NewTty :
                    (NewTty[i].op = "makeRaw" /\ NewTty[i].ok)
                        => (pc' = "RAW_WAIT" /\ IsRaw(term')))]_vars
    /\ []((command = "receive" /\ EnterRawCalls > 0 /\ ReadsOf(CtrlS) = {}) =>
            /\ Len(net) - netAtEntry = Cardinality(ReadsOf(CtrlR))
            /\ \A i \in DOMAIN net :
                   net[i].op = "fetchConversation" => net[i].to = friend)

C5_Witness ==
    /\ pc = "RAW_WAIT" /\ command = "receive"
    /\ Cardinality(ReadsOf(CtrlR)) = 2
    /\ Len(net) - netAtEntry = 2
    /\ IsRaw(term)

\* A line that holds nothing but white space
Blank(text) == \A i \in DOMAIN text : text[i] \in {" ", "\t", "\n", "\r"}

\* The cooked lines the step read
NewLines == SelectSeq(NewTty, LAMBDA e : e.op = "readLine")

\* C6: when the compose handler reads a line that is empty after trimming,
\* it tells the user so, calls neither sendMessage nor fetchConversation and
\* reports no error; makeRaw is called again and, raw mode entered, the
\* controller is in RAW_WAIT.
C6_EmptyMessageNotSent ==
    [][(/\ command = "receive" /\ KeyRead(CtrlS)
        /\ NewLines # <<>> /\ NewLines[1].ok /\ Blank(NewLines[1].text)) =>
          /\ Line("Message cannot be empty. Message sending cancelled.") \in Range(NewOut)
          /\ Line("Error sending message") \notin Range(NewOut)
          /\ net' = net
          /\ Len(SelectSeq(NewTty, LAMBDA e : e.op = "makeRaw")) = 1
          /\ (\A i \in DOMAIN NewTty :
                  (NewTty[i].op = "makeRaw" /\ NewTty[i].ok)
                      => (pc' = "RAW_WAIT" /\ IsRaw(term')))]_vars

C6_Witness ==
    /\ pc = "RAW_WAIT" /\ command = "receive"
    /\ \E i \in DOMAIN tty :
          tty[i].op = "readLine" /\ tty[i].ok /\ tty[i].text = <<"\t", " ", "\n">>
    /\ Line("Message cannot be empty. Message sending cancelled.") \in Range(stdout)
    /\ CallsOf(net, "sendMessage") = <<>>

\* The respond flow ran: the requests loop read the refresh key
RespondFlowRan == command = "requests" /\ ReadsOf(CtrlR) # {}

\* Statuses that stand for pending or rejected, whatever their letter case
EligibleStatus(st) == st \in {"pending", "Pending", "rejected", "Rejected"}

\* Request ids of the options the respond flow listed, in the order listed
OfferedIds ==
    LET options == SelectSeq(stdout, LAMBDA l : l.text = "option")
    IN  [i \in DOMAIN options |-> options[i].ref[2]]

EligibleIds ==
    LET eligible == SelectSeq(requests, LAMBDA r : EligibleStatus(r.Status))
    IN  [i \in DOMAIN eligible |-> eligible[i].RequestID]

\* C7: the requests the respond flow offers are exactly the fetched records
\* whose status is pending or rejected, in their original order, numbered
\* from 1; an accepted record is never offered.
C7_OnlyPendingOrRejectedOffered ==
    RespondFlowRan =>
        /\ OfferedIds = EligibleIds
        /\ \A i \in DOMAIN OfferedIds :
              /\ requests[OfferedIds[i]].Status \notin {"accepted", "Accepted"}
              /\ SelectSeq(stdout, LAMBDA l : l.text = "option")[i].ref[1] = i

C7_Witness ==
    /\ RespondFlowRan
    /\ [i \in DOMAIN requests |-> requests[i].Status] = <<"accepted", "pending", "rejected">>
    /\ OfferedIds = <<2, 3>>

\* The selection line the respond flow read, if it read one: the first line
\* read after the refresh key
SelectionLines ==
    LET k == CHOOSE i \in ReadsOf(CtrlR) : TRUE
    IN  SelectSeq(SubSeq(tty, k + 1, Len(tty)), LAMBDA e : e.op = "readLine")

\* The text is a decimal numeral of n, white space around it aside
Numerals == <<"1", "2", "3", "4", "5", "6", "7", "8", "9">>
Denotes(text, n) ==
    LET bare == SelectSeq(text, LAMBDA c : c \notin {" ", "\t", "\n", "\r"})
    IN  n \in DOMAIN Numerals /\ bare \in {<<Numerals[n]>>, <<"+", Numerals[n]>>}

\* C8: a selection that is not a number, or a number outside 1..(number of
\* eligible records), gets the message "Invalid request number.", indexes
\* nothing, and respondToRequest is not called.
C8_InvalidSelectionRejected ==
    (/\ RespondFlowRan
     /\ SelectionLines # <<>> /\ SelectionLines[1].ok
     /\ ~\E n \in 1..Len(EligibleIds) : Denotes(SelectionLines[1].text, n)) =>
        /\ Line("Invalid request number.") \in Range(stdout)
        /\ CallsOf(net, "respondToRequest") = <<>>
        /\ \A i \in DOMAIN stdout : stdout[i].text # "Selected request from"
        /\ Len(SelectionLines) = 1

C8_Witness ==
    /\ RespondFlowRan
    /\ Len(EligibleIds) = 2
    /\ SelectionLines # <<>> /\ SelectionLines[1].text = <<"5", "\n">>
    /\ Line("Invalid request number.") \in Range(stdout)
    /\ pc = "exited"

\* Raw mode could not be entered when the loop was set up
SetupFailed == EnterRawCalls = 1 /\ EnterRawSuccesses = 0

\* C9: when entering raw mode fails at set-up, no key byte is read and the
\* failure reaches the caller: the command function returns an error and
\* the front end does not report success.
C9_SetupFailureReported ==
    SetupFailed =>
        /\ Count(tty, "read") = 0
        /\ (Ended => result = "error")
        /\ (pc = "exited" => exitCode # 0)

\* Positions of the operations that switch the terminal mode
ModeSwitches == {i \in DOMAIN tty : tty[i].op = "restore" \/ (tty[i].op = "makeRaw" /\ tty[i].ok)}

\* C10: every single-byte read is issued with the terminal in raw mode, and
\* the last mode switch before it is a successful makeRaw, never a restore.
C10_ReadsOnlyInRawMode ==
    \A i \in DOMAIN tty :
        tty[i].op = "read" =>
            /\ tty[i].raw
            /\ \E j \in ModeSwitches :
                  /\ j < i /\ tty[j].op = "makeRaw"
                  /\ \A k \in ModeSwitches : k < i => k <= j

C10_Witness ==
    /\ Count(tty, "read") = 2
    /\ \E i, j, k \in DOMAIN tty :
          /\ i < j /\ j < k
          /\ tty[i].op = "restore" /\ tty[j].op = "makeRaw" /\ tty[j].ok
          /\ tty[k].op = "read" /\ tty[k].raw

HandlerRan ==
    /\ pc = "RAW_WAIT"
    /\ NewTty # <<>> /\ NewTty[1].op = "read" /\ NewTty[1].ok
    /\ NewTty[1].key \in (Recognized \ {CtrlC})

FailedCalls(name) == SelectSeq(NewNet, LAMBDA c : c.op = name /\ ~c.ok)

\* C13: in the conversation session, when fetchConversation (on refresh or
\* after a send) or sendMessage returns an error, the error is printed and
\* the process goes on: makeRaw is called once more and, raw mode entered,
\* the controller is in RAW_WAIT with the terminal raw.
C13_RemoteErrorsRecoverable ==
    [][(/\ command = "receive" /\ HandlerRan
        /\ (FailedCalls("fetchConversation") # <<>> \/ FailedCalls("sendMessage") # <<>>)) =>
          /\ FailedCalls("fetchConversation") # <<>>
                => Line("Error refreshing conversation") \in Range(NewOut)
          /\ FailedCalls("sendMessage") # <<>>
                => Line("Error sending message") \in Range(NewOut)
          /\ pc' # "exited" /\ exitCode' = exitCode
          /\ Len(SelectSeq(NewTty, LAMBDA e : e.op = "makeRaw")) = 1
          /\ (\A i \in DOMAIN NewTty :
                  (NewTty[i].op = "makeRaw" /\ NewTty[i].ok)
                      => (pc' = "RAW_WAIT" /\ IsRaw(term')))]_vars

C13_Witness ==
    /\ pc = "RAW_WAIT" /\ command = "receive" /\ IsRaw(term)
    /\ Count(tty, "read") = 2
    /\ \E i, j \in DOMAIN net :
          /\ netAtEntry < i /\ i + 1 < j
          /\ net[i].op = "fetchConversation" /\ ~net[i].ok
          /\ net[i + 1].op = "sendMessage" /\ net[i + 1].ok
          /\ net[j].op = "fetchConversation" /\ ~net[j].ok

\* The respond flow reported a validation error or a remote error in the step
RespondFlowFailed ==
    /\ command = "requests" /\ HandlerRan
    /\ \/ Line("Invalid request number.") \in Range(NewOut)
       \/ Line("Invalid choice.") \in Range(NewOut)
       \/ FailedCalls("respondToRequest") # <<>>

\* C14: after a validation error or a remote error in the respond flow the
\* session goes on: the controller is back in RAW_WAIT, the process neither
\* returns to the front end nor exits.
C14_RespondErrorsKeepSession ==
    [][RespondFlowFailed => (pc' = "RAW_WAIT" /\ IsRaw(term'))]_vars

\* Positions in the step's terminal history of the stdin reads that failed
FailedReads ==
    {i \in DOMAIN NewTty : NewTty[i].op \in {"read", "readLine"} /\ ~NewTty[i].ok}

\* C15: a failed read of standard input during a session (key read or
\* cooked line read) ends the session: nothing more is read, the loop is
\* left, and the terminal is cooked again.
C15_InputErrorsFatal ==
    [][(pc = "RAW_WAIT" /\ FailedReads # {}) =>
          /\ pc' \in {"returned", "exited"}
          /\ IsCooked(term') /\ term' = origTerm
          /\ \A i \in FailedReads : \A j \in DOMAIN NewTty :
                 j > i => NewTty[j].op \notin {"read", "readLine"}]_vars

\* The step's calls of the named collaborator that returned no error
SucceededCalls(name) == SelectSeq(NewNet, LAMBDA c : c.op = name /\ c.ok)

\* A refresh or compose step in which nothing failed: no read error, no
\* collaborator error, raw mode entered again
ConversationHandlerSucceeded ==
    /\ command = "receive" /\ HandlerRan
    /\ FailedReads = {}
    /\ \A i \in DOMAIN NewNet : NewNet[i].ok
    /\ \A i \in DOMAIN NewTty : NewTty[i].op = "makeRaw" => NewTty[i].ok

\* C16: a run makes at most one respondToRequest call; once one succeeded,
\* the loop function has returned and no key byte is read after it; the
\* step in which it succeeds leaves RAW_WAIT, while a refresh or compose
\* step in which nothing failed ends in RAW_WAIT.
C16_RespondEndsLoop ==
    /\ [](Count(net, "respondToRequest") <= 1)
    /\ []((\E i \in DOMAIN net : net[i].op = "respondToRequest" /\ net[i].ok) =>
            /\ pc \in {"returned", "exited"}
            /\ Cardinality(ReadsOf(CtrlR)) = 1
            /\ \A k \in ReadsOf(CtrlR) : \A j \in DOMAIN tty : j > k => tty[j].op # "read")
    /\ [][/\ SucceededCalls("respondToRequest") # <<>> => pc' = "returned"
          /\ ConversationHandlerSucceeded => pc' = "RAW_WAIT"]_vars

C16_Witness ==
    /\ command = "requests" /\ pc = "exited" /\ exitCode = 0
    /\ Count(tty, "read") = 2
    /\ \E i \in DOMAIN net :
          net[i].op = "respondToRequest" /\ net[i].ok /\ net[i].arg = "reject"
    /\ stdout[Len(stdout) - 1] = Line("Program will now exit.")

NothingToRespond == Line("No pending or rejected friend requests to respond to.")

\* C17: when no fetched record is pending or rejected (the fetched list may
\* be empty), the respond flow says there is nothing to respond to, lists
\* and prompts nothing, reads no line and does not call respondToRequest.
C17_NothingEligibleNoPrompt ==
    (RespondFlowRan /\ EligibleIds = <<>>) =>
        /\ NothingToRespond \in Range(stdout)
        /\ SelectionLines = <<>>
        /\ CallsOf(net, "respondToRequest") = <<>>
        /\ \A i \in DOMAIN stdout :
              stdout[i].text \notin {"option", "Enter the number of the request to respond to: ",
                                     "=== Respond to Friend Requests ==="}

C17_Witness ==
    /\ RespondFlowRan /\ pc = "returned"
    /\ [i \in DOMAIN requests |-> requests[i].Status] = <<"accepted", "accepted">>
    /\ NothingToRespond \in Range(stdout)
    /\ Count(tty, "readLine") = 1

\* C18: when the compose handler's sendMessage call succeeds, the body sent
\* is not empty, exactly one fetchConversation call for the same peer
\* follows in the same step and nothing else is called; makeRaw is called
\* once after them, and the controller is in RAW_WAIT only with the
\* terminal raw.
C18_RefreshAfterSend ==
    [][(/\ command = "receive" /\ KeyRead(CtrlS)
        /\ SucceededCalls("sendMessage") # <<>>) =>
          /\ Len(NewNet) = 2
          /\ NewNet[1].op = "sendMessage" /\ NewNet[1].ok
          /\ NewNet[1].arg # <<>> /\ ~Blank(NewNet[1].arg)
          /\ NewNet[1].to = friend
          /\ NewNet[2].op = "fetchConversation" /\ NewNet[2].to = friend
          /\ friend' = friend
          /\ Len(SelectSeq(NewTty, LAMBDA e : e.op = "makeRaw")) = 1
          /\ (pc' = "RAW_WAIT" => IsRaw(term'))
          /\ (\A i \in DOMAIN NewTty :
                  (NewTty[i].op = "makeRaw" /\ NewTty[i].ok)
                      => (pc' = "RAW_WAIT" /\ IsRaw(term')))]_vars

C18_Witness ==
    /\ pc = "RAW_WAIT" /\ command = "receive" /\ IsRaw(term)
    /\ Len(net) = netAtEntry + 2
    /\ net[Len(net) - 1].op = "sendMessage" /\ net[Len(net) - 1].ok
    /\ net[Len(net) - 1].arg = <<"y", "o">> /\ net[Len(net) - 1].to = friend
    /\ net[Len(net)].op = "fetchConversation" /\ net[Len(net)].ok
    /\ net[Len(net)].to = friend

C20_EnterRawFrame ==
    /\ IsRaw(term) =>
          /\ term.Iflag = origTerm.Iflag /\ term.Oflag = origTerm.Oflag
          /\ term.Cflag = origTerm.Cflag /\ term.c_line = origTerm.c_line
          /\ term.Lflag = origTerm.Lflag \ {"ICANON", "ECHO"}
          /\ term.c_cc[VMIN] = 1 /\ term.c_cc[VTIME] = 0
          /\ \A k \in DOMAIN term.c_cc \ {VMIN, VTIME} : term.c_cc[k] = origTerm.c_cc[k]
    /\ \A i \in DOMAIN tty :
          (/\ tty[i].op = "makeRaw" /\ ~tty[i].ok
           /\ \A j \in DOMAIN tty : j > i => tty[j].op # "makeRaw") =>
              /\ oldState = <<>>
              /\ term = origTerm

\* C21: restore called without a snapshot (nil, raw mode never entered)
\* leaves the terminal configuration as it is and reports no failure; so do
\* both copies of the function, in whatever configuration the terminal is.
C21_RestoreWithoutSnapshot ==
    /\ restore(term, <<>>).term = term
    /\ ~restore(term, <<>>).err
    /\ restoreForReceiveMessage(term, <<>>).term = term
    /\ ~restoreForReceiveMessage(term, <<>>).err

\* Sender user names of the eligible records, in the order of the fetched list
EligibleSenders ==
    LET eligible == SelectSeq(requests, LAMBDA r : EligibleStatus(r.Status))
    IN  [i \in DOMAIN eligible |-> eligible[i].SenderUsername]

\* C22: when the selection line denotes k with 1 <= k <= number of eligible
\* records and the choice line was read, then: if the choice denotes 1 or 2,
\* respondToRequest is called exactly once, for the sender of the k-th
\* eligible record, with action accept for 1 and reject for 2; any other
\* choice gets "Invalid choice." and no respondToRequest call.
C22_RespondCallArguments ==
    \A k \in 1..Len(EligibleSenders) :
        (/\ RespondFlowRan
         /\ Len(SelectionLines) = 2
         /\ SelectionLines[1].ok /\ Denotes(SelectionLines[1].text, k)
         /\ SelectionLines[2].ok) =>
            LET choice == SelectionLines[2].text
                calls  == CallsOf(net, "respondToRequest")
            IN  IF Denotes(choice, 1) \/ Denotes(choice, 2)
                THEN /\ Len(calls) = 1
                     /\ calls[1].to = EligibleSenders[k]
                     /\ calls[1].arg = "accept" <=> Denotes(choice, 1)
                     /\ calls[1].arg = "reject" <=> Denotes(choice, 2)
                     /\ Line("Invalid choice.") \notin Range(stdout)
                ELSE /\ calls = <<>>
                     /\ Line("Invalid choice.") \in Range(stdout)

C22_Witness ==
    /\ RespondFlowRan
    /\ [i \in DOMAIN requests |-> requests[i].Status] = <<"accepted", "pending", "rejected">>
    /\ Len(SelectionLines) = 2
    /\ SelectionLines[1].text = <<"2", "\n">> /\ SelectionLines[2].text = <<" ", "2", "\n">>
    /\ \E i \in DOMAIN net :
          /\ net[i].op = "respondToRequest"
          /\ net[i].to = <<"user", 3>> /\ net[i].arg = "reject"

\* C23: sendMessageToFriend returns nil exactly for a 200 status, whether or
\* not the body decodes, and an error for a transport failure or another
\* status; in a session, a send whose 200 body did not decode is reported
\* as sent and is followed by the refresh of the conversation.
C23_UndecodableBodyIsSuccess ==
    /\ [](\A resp \in HttpResponses :
            sendMessageToFriend(term, <<"h", "i">>, friend, resp).err
                <=> resp \notin {"status_200_json", "status_200_garbage"})
    /\ [][\A i \in DOMAIN NewNet :
            (NewNet[i].op = "sendMessage" /\ NewNet[i].body = "undecodable") =>
                /\ NewNet[i].ok
                /\ i < Len(NewNet)
                /\ NewNet[i + 1].op = "fetchConversation" /\ NewNet[i + 1].to = NewNet[i].to
                /\ LineAbout("Message sent successfully", <<friend>>) \in Range(NewOut)
                /\ Line("Error sending message") \notin Range(NewOut)]_vars

C23_Witness ==
    /\ command = "receive" /\ pc = "RAW_WAIT"
    /\ Count(tty, "read") = 1
    /\ net[Len(net) - 1].op = "sendMessage" /\ net[Len(net) - 1].body = "undecodable"
    /\ net[Len(net)].op = "fetchConversation"
    /\ LineAbout("Message sent successfully", <<friend>>) \in Range(stdout)

\* Positions in the step's terminal history of the makeRaw calls that failed
FailedReentries == {i \in DOMAIN NewTty : NewTty[i].op = "makeRaw" /\ ~NewTty[i].ok}

C25_SendAndRefreshFailures ==
    [][(command = "receive" /\ KeyRead(CtrlS)) =>
          /\ FailedCalls("sendMessage") # <<>> =>
                /\ Len(NewNet) = 1
                /\ Line("Error sending message") \in Range(NewOut)
                /\ Line("Refreshing conversation to show your message...") \notin Range(NewOut)
          /\ (SucceededCalls("sendMessage") # <<>> /\ FailedCalls("fetchConversation") # <<>>) =>
                /\ Len(NewNet) = 2
                /\ Line("Error refreshing conversation") \in Range(NewOut)
                /\ LineAbout("Message sent successfully", <<friend>>) \in Range(NewOut)
                /\ Line("Error sending message") \notin Range(NewOut)]_vars

C25_Witness ==
    /\ command = "receive" /\ Count(tty, "read") = 1
    /\ Len(net) = netAtEntry + 2
    /\ net[Len(net) - 1].op = "sendMessage" /\ net[Len(net) - 1].ok
    /\ net[Len(net)].op = "fetchConversation" /\ ~net[Len(net)].ok
    /\ Line("Error refreshing conversation") \in Range(stdout)
    /\ Line("Error sending message") \notin Range(stdout)


\* C26: one byte read runs at most one of the blocks of a loop. In the
\* conversation loop the refresh key runs the refresh block only (no line
\* read, no send, no exit), the compose key the compose block only (no
\* refresh block, no exit), the interrupt key only the exit; in the
\* requests loop the refresh key runs the respond flow and does not exit
\* the process, the interrupt key runs no handler.
C26_ExclusiveDispatch ==
    [][/\ (command = "receive" /\ KeyRead(CtrlR)) =>
             /\ Printed(NewOut, Line("Refreshing conversation...")) = 1
             /\ Printed(NewOut, Line("Send Message Mode")) = 0
             /\ Printed(NewOut, Farewell) = 0
             /\ NewLines = <<>>
             /\ \A i \in DOMAIN NewNet : NewNet[i].op = "fetchConversation"
             /\ Len(SelectSeq(NewTty, LAMBDA e : e.op = "makeRaw")) = 1
             /\ pc' # "exited"
       /\ (command = "receive" /\ KeyRead(CtrlS)) =>
             /\ Printed(NewOut, Line("Send Message Mode")) = 1
             /\ Printed(NewOut, Line("Refreshing conversation...")) = 0
             /\ Printed(NewOut, Farewell) = 0
             /\ Len(NewLines) = 1
             /\ Len(SelectSeq(NewTty, LAMBDA e : e.op = "makeRaw")) = 1
             /\ pc' # "exited"
       /\ (command = "requests" /\ KeyRead(CtrlR)) =>
             /\ Printed(NewOut, Farewell) = 0
             /\ pc' = "returned"
       /\ KeyRead(CtrlC) =>
             /\ NewOut = <<Farewell>>
             /\ Len(NewTty) = 1 /\ NewNet = <<>>
             /\ pc' = "exited"]_vars

C26_Witness ==
    /\ command = "receive" /\ pc = "exited"
    /\ Count(tty, "read") = 2
    /\ [i \in 1..2 |-> SelectSeq(tty, LAMBDA e : e.op = "read")[i].key] = <<CtrlR, CtrlC>>
    /\ Printed(stdout, Line("Refreshing conversation...")) = 1
    /\ Printed(stdout, Line("Send Message Mode")) = 0
    /\ Printed(stdout, Farewell) = 1


\* A re-entry into raw mode failed
EnterRawFailed == \E i \in DOMAIN tty : tty[i].op = "makeRaw" /\ ~tty[i].ok

\* The controller is acting on one of these keys
Acting(keys) == pc = "ACTION_RUNNING" /\ tty[Len(tty)].ok /\ tty[Len(tty)].key \in keys

\* The controller is acting on the interrupt byte or on a read error
ActingOnEnd == pc = "ACTION_RUNNING" /\ (~tty[Len(tty)].ok \/ tty[Len(tty)].key = CtrlC)

\* C27: in the conversation session, with collaborator calls and cooked
\* reads returning, the controller never stays in ACTION_RUNNING; every
\* refresh or compose key press is followed by RAW_WAIT unless entering raw
\* mode failed; and once the interrupt byte or a read error is delivered the
\* session terminates.
C27_HandlersComplete ==
    /\ (pc = "ACTION_RUNNING") ~> (pc # "ACTION_RUNNING")
    /\ (command = "receive" /\ Acting({CtrlR, CtrlS})) ~> (pc = "RAW_WAIT" \/ EnterRawFailed)
    /\ ActingOnEnd ~> (pc = "exited")

C27_Witness ==
    /\ pc = "ACTION_RUNNING" /\ command = "receive"
    /\ Count(tty, "read") = 2
    /\ tty[Len(tty)].key = CtrlC
    /\ ReadsOf(CtrlS) # {}
    /\ \E i \in DOMAIN net : net[i].op = "sendMessage" /\ net[i].ok
    /\ ~EnterRawFailed

\* The typed line, white space around it aside, is a decimal integer of value n
IntegerLine(text, n) == ~Atoi(TrimSpace(text)).err /\ Atoi(TrimSpace(text)).val = n

\* The line typed at the selection prompt
TypedLine == tty[1]

\* C28: given a non-empty friends list of length n and an input line,
\* selectFriend returns the friend at position choice-1 exactly when the line
\* parses as an integer with 1 <= choice <= n, and otherwise returns an error
\* and indexes nothing; no index outside 0..n-1 is ever accessed.
C28_SelectsIffIntegerInRange ==
    pc = "returned" =>
        LET choices == {k \in 1..Len(friends) :
                            TypedLine.ok /\ IntegerLine(TypedLine.text, k)}
        IN  /\ result = "nil" <=> choices # {}
            /\ \A k \in choices : friend = friends[k] /\ indexed = <<k - 1>>
            /\ result = "error" => indexed = <<>>
            /\ \A i \in DOMAIN indexed : indexed[i] \in 0..(Len(friends) - 1)

\* What does hold of selectFriend: the same with the first word of the line,
\* the token fmt.Scanln stores, in place of the line
SelectsOnFirstWord ==
    pc = "returned" =>
        LET word    == IF TypedLine.ok THEN Scanln(TypedLine.text) ELSE <<>>
            choices == {k \in 1..Len(friends) : ~Atoi(word).err /\ Atoi(word).val = k}
        IN  /\ result = "nil" <=> choices # {}
            /\ \A k \in choices : friend = friends[k] /\ indexed = <<k - 1>>
            /\ result = "error" => indexed = <<>>
            /\ \A i \in DOMAIN indexed : indexed[i] \in 0..(Len(friends) - 1)

\* The friends list the file holds for the program
Stored(file) == IF file.exists THEN Decode(file).Friends ELSE <<>>

StoredIds(file) == [i \in DOMAIN Stored(file) |-> Stored(file)[i].UserID]

NoDuplicateIds == \A i, j \in DOMAIN StoredIds(friendsFile) :
                      StoredIds(friendsFile)[i] = StoredIds(friendsFile)[j] => i = j

\* The step called addFriend, and the user id it passed
AddFriendCalled == NewOut # <<>> /\ NewOut[1].text = "User found"
AddedId == NewOut[1].ref[2]
AddFriendFailed == \E i \in DOMAIN NewOut : NewOut[i].text = "Error adding friend"

AppendedOne ==
    LET before == Stored(friendsFile)
        after  == Stored(friendsFile')
    IN  /\ Len(after) = Len(before) + 1
        /\ SubSeq(after, 1, Len(before)) = before
        /\ after[Len(after)].UserID = AddedId

\* C29: from a missing, empty or duplicate-free friends file, the stored list
\* never holds a user id twice; an addFriend call whose user id is already
\* stored returns an error and leaves the stored list unchanged, and every
\* other call appends exactly one entry at the end and keeps the existing
\* entries in order.
C29_AddFriendAppendsOrRejects ==
    /\ []NoDuplicateIds
    /\ [][AddFriendCalled =>
            IF \E i \in DOMAIN StoredIds(friendsFile) : StoredIds(friendsFile)[i] = AddedId
            THEN AddFriendFailed /\ friendsFile' = friendsFile
            ELSE AppendedOne]_vars

\* What does hold of addFriend: no user id is ever stored twice, a call with
\* a stored id fails and changes nothing, a call that returns nil has
\* appended one entry, and a call that fails for another reason leaves the
\* file as it was or without any entry.
AddFriendWhenItSucceeds ==
    /\ []NoDuplicateIds
    /\ [][AddFriendCalled =>
            IF \E i \in DOMAIN StoredIds(friendsFile) : StoredIds(friendsFile)[i] = AddedId
            THEN AddFriendFailed /\ friendsFile' = friendsFile
            ELSE IF AddFriendFailed
                 THEN friendsFile' = friendsFile \/ Stored(friendsFile') = <<>>
                 ELSE AppendedOne]_vars

\* The step is an iteration of the search loop
SearchLoopStep == pc = "SEARCH_PROMPT" /\ command = "search"

\* The lines the user typed in the step at the username prompt and at the
\* (y/n) prompt. With characters of an earlier line still unread, the loop
\* does not wait at the username prompt.
TypedAtUsernamePrompt == IF stdin = <<>> THEN SubSeq(NewLines, 1, 1) ELSE <<>>
TypedAtAnswerPrompt == IF stdin = <<>> THEN SubSeq(NewLines, 2, Len(NewLines)) ELSE NewLines

\* The user typed a line there, and it is one of these words
Says(typed, words) == typed # <<>> /\ typed[1].ok /\ TrimSpace(typed[1].text) \in words

FriendRequestsSent == CallsOf(NewNet, "sendFriendRequest")

\* C30: in the interactive search loop only the inputs quit and exit end the
\* loop; an empty input or a failed searchUser call is reported and the loop
\* prompts again without sending a friend request; sendFriendRequest is
\* called only after a successful search and an affirmative answer (y, Y,
\* yes, Yes, YES), with the username that search returned; and a failed
\* sendFriendRequest does not end the loop.
C30_SearchLoop ==
    [][SearchLoopStep =>
        /\ pc' # "SEARCH_PROMPT" => Says(TypedAtUsernamePrompt, {Quit, Exit})
        /\ Says(TypedAtUsernamePrompt, {<<>>}) =>
              /\ Line("Please enter a username") \in Range(NewOut)
              /\ NewNet = <<>>
              /\ pc' = "SEARCH_PROMPT"
        /\ FailedCalls("searchUser") # <<>> =>
              /\ Line("Error searching user") \in Range(NewOut)
              /\ FriendRequestsSent = <<>>
              /\ pc' = "SEARCH_PROMPT"
        /\ FriendRequestsSent # <<>> =>
              /\ Len(FriendRequestsSent) = 1
              /\ SucceededCalls("searchUser") # <<>>
              /\ Says(TypedAtAnswerPrompt, Affirmative)
              /\ \E i \in DOMAIN NewOut :
                    /\ NewOut[i].text = "User found"
                    /\ NewOut[i].ref[1] = FriendRequestsSent[1].to
        /\ FailedCalls("sendFriendRequest") # <<>> => pc' = "SEARCH_PROMPT"]_vars

\* The words fmt.Scanln stored in the step: the input, then the answer
Scanned == SelectSeq(NewTty, LAMBDA e : e.op = "Scanln")

\* What does hold of the loop: the same with the scanned words in place of
\* the typed lines
SearchLoopOnWords ==
    [][SearchLoopStep =>
        /\ pc' # "SEARCH_PROMPT" <=> Scanned[1].text \in {Quit, Exit}
        /\ Scanned[1].text = <<>> =>
              /\ Line("Please enter a username") \in Range(NewOut)
              /\ NewNet = <<>>
              /\ pc' = "SEARCH_PROMPT"
        /\ FailedCalls("searchUser") # <<>> =>
              /\ Line("Error searching user") \in Range(NewOut)
              /\ FriendRequestsSent = <<>>
              /\ pc' = "SEARCH_PROMPT"
        /\ FriendRequestsSent # <<>> =>
              /\ Len(FriendRequestsSent) = 1
              /\ SucceededCalls("searchUser") # <<>>
              /\ Len(Scanned) = 2 /\ Scanned[2].text \in Affirmative
              /\ \E i \in DOMAIN NewOut :
                    /\ NewOut[i].text = "User found"
                    /\ NewOut[i].ref[1] = FriendRequestsSent[1].to
        /\ FailedCalls("sendFriendRequest") # <<>> => pc' = "SEARCH_PROMPT"]_vars


=============================================================================
